---- MODULE Spec2Model ----
(***************************************************************************)
(* Model of src/src/scanner.js: the ActiveScan frame loop with its         *)
(* refractory timer, the Analyzer's lazy buffer allocation, and the        *)
(* Scanner's activation state machine driven by start(), stop() and page   *)
(* visibility changes.                                                     *)
(*                                                                         *)
(* One step of the model is one turn of the event loop: a public call, a   *)
(* visibility event, a timer, an animation frame or the settling of        *)
(* camera.start().  Promise continuations that need no further event run   *)
(* inside the step that triggers them.                                     *)
(***************************************************************************)
EXTENDS Integers, Sequences, FiniteSets, TLC

\* ---------------------------------------------------------------- bounds
MaxRaf == 2
MaxDeferred == 2
MaxEmit == 2
MaxPeriod == 2
MaxRefractory == 2
MaxCount == 4

Cameras == {"c1", "c2"}
NoCam == "nocam"
Texts == {"A", "B"}
Null == "null"
DecodeErr == "err"
\* what ZXing._decode_qr can produce: a nonzero status, or a string (possibly empty)
DecodeOutcomes == Texts \cup {"", DecodeErr}
Never == 0 - 1
AgeCap == MaxRefractory

VARIABLES
  fsm,              \* this._fsm.current
  lock,             \* "none", or who started the transition that awaits camera.start()
  visible,          \* Visibility.state() === 'visible'
  backgroundScan,   \* Scanner.backgroundScan
  deferred,         \* pending setTimeout(..., 0) callbacks of the visibility handler
  _camera,          \* Scanner._camera
  camState,         \* per camera: "off", "starting" (start() called, unsettled), "on"
  videoSrc,         \* video.src is a stream url (TRUE) or '' (FALSE)
  videoReady,       \* video.videoWidth is nonzero
  _active,          \* ActiveScan._active
  raf,              \* pending requestAnimationFrame callbacks of _scan
  _frameCount,      \* ActiveScan._frameCount
  scanPeriod,       \* ActiveScan.scanPeriod
  captureImage,     \* ActiveScan.captureImage
  refractoryPeriod, \* ActiveScan.refractoryPeriod
  lastResult,       \* ActiveScan.lastResult
  refractoryTimeout,\* ActiveScan.refractoryTimeout (a timer id, 0 before the first)
  timers,           \* pending refractory timers: records [id, left]
  emitQueue,        \* pending deferred emissions of 'scan'
  imageBuffer,      \* Analyzer.imageBuffer is allocated
  startCall,        \* the latest start() call that got past the transition lock
  op,               \* the handler run by the last step
  out,              \* what that handler called, emitted or threw, in order
  sinceAnalyze,     \* history: live ticks since the last analyze() call (saturating)
  sinceSet,         \* history: live ticks without analyze() since scanPeriod was set
  lastAccept        \* history: per text, time since it was last accepted (saturating)

vars == <<fsm, lock, visible, backgroundScan, deferred, _camera, camState, videoSrc,
          videoReady, _active, raf, _frameCount, scanPeriod, captureImage,
          refractoryPeriod, lastResult, refractoryTimeout, timers, emitQueue,
          imageBuffer, startCall, op, out, sinceAnalyze, sinceSet, lastAccept>>

lifeVars == <<fsm, lock, _camera, camState, videoSrc, videoReady, _active, raf>>
scanVars == <<_frameCount, lastResult, refractoryTimeout, timers, emitQueue,
              imageBuffer, sinceAnalyze, sinceSet, lastAccept>>
confVars == <<backgroundScan, scanPeriod, captureImage, refractoryPeriod>>

\* status: "pending" until the awaited transitions settle, then "ok" or "error";
\* kind: "fresh" from 'stopped', else "restart"; same: the call names the camera
\* of the completed call before it; guardVisible: what the guard of 'activate' saw
NoCall ==
  [status |-> "none", kind |-> "none", cam |-> NoCam, same |-> FALSE,
   guardVisible |-> FALSE]

\* The state after `new Scanner(opts)` (lines 137-212).
Construct(bg, period, capture, refractory) ==
  /\ fsm = "stopped"
  /\ lock = "none"
  /\ backgroundScan = bg
  /\ deferred = 0
  /\ _camera = NoCam
  /\ camState = [c \in Cameras |-> "off"]
  /\ videoSrc = FALSE
  /\ videoReady = FALSE
  /\ _active = FALSE
  /\ raf = 0
  /\ _frameCount = 0
  /\ scanPeriod = period
  /\ captureImage = capture
  /\ refractoryPeriod = refractory
  /\ lastResult = Null
  /\ refractoryTimeout = 0
  /\ timers = {}
  /\ emitQueue = <<>>
  /\ imageBuffer = FALSE
  /\ startCall = NoCall
  /\ op = "new"
  /\ out = << <<"emit", "inactive">> >>
  /\ sinceAnalyze = 0
  /\ sinceSet = Never
  /\ lastAccept = [t \in Texts |-> Never]

\* Any page visibility, any backgroundScan and scanPeriod, the other options
\* left at their values for a scanner that captures no image.
Init ==
  /\ visible \in BOOLEAN
  /\ \E bg \in BOOLEAN, period \in 1..MaxPeriod :
       Construct(bg, period, FALSE, MaxRefractory)

\* A visible page, and any scan options.
InitScan ==
  /\ visible = TRUE
  /\ \E period \in 1..MaxPeriod, capture \in BOOLEAN, refractory \in 1..MaxRefractory :
       Construct(FALSE, period, capture, refractory)

\* ------------------------------------------------ the activation state machine
\* The events table of StateMachine.create: can(event) in state s.
Can(event, s) ==
  CASE event = "start"      -> s = "stopped"
    [] event = "stop"       -> s \in {"started", "active", "inactive"}
    [] event = "activate"   -> s \in {"started", "inactive"}
    [] event = "deactivate" -> s \in {"started", "active"}

\* The condition of 'activate' is an ordinary function, so its `this` is the
\* object the state machine calls it on, never the Scanner: the value it
\* reads as this.backgroundScan is that of a property nobody sets.
ConditionThisBackgroundScan == FALSE

Condition(vis) ==
  IF vis \/ ConditionThisBackgroundScan THEN "active" ELSE "inactive"

\* The part of the state a lifecycle handler works on.
Life ==
  [fsm |-> fsm, lock |-> lock, cam |-> _camera, camState |-> camState,
   videoSrc |-> videoSrc, videoReady |-> videoReady, active |-> _active,
   raf |-> raf, out |-> <<>>, failed |-> FALSE, guarded |-> FALSE,
   guardVisible |-> FALSE]

Effect(s, e) == [s EXCEPT !.out = Append(@, e)]

\* A rejected promise: nothing after the await that receives it runs.
Fail(s, e) == [Effect(s, e) EXCEPT !.failed = TRUE]

ActiveScanStart(s) == [s EXCEPT !.active = TRUE, !.raf = @ + 1]

ActiveScanStop(s) == [s EXCEPT !.active = FALSE]

\* the camera is left running
DisableScanKeepCamera(s) ==
  ActiveScanStop([s EXCEPT !.videoSrc = FALSE, !.videoReady = FALSE])

\* _disableScan
DisableScan(s) ==
  LET a == ActiveScanStop([s EXCEPT !.videoSrc = FALSE, !.videoReady = FALSE])
  IN  IF a.cam # NoCam
        THEN Effect([a EXCEPT !.camState[a.cam] = "off"], <<"camera.stop", a.cam>>)
        ELSE a

\* 'inactive' is emitted before the cleanup
OnLeaveActiveEmitFirst(s) == DisableScan(Effect(s, <<"emit", "inactive">>))

\* onleaveactive
OnLeaveActive(s) == Effect(DisableScan(s), <<"emit", "inactive">>)

\* the missing camera is not detected
EnableScanCallUnchecked(s, c, caller) ==
  LET cam == IF c # NoCam THEN c ELSE s.cam
  IN  Effect([s EXCEPT !.cam = cam, !.lock = caller], <<"camera.start", cam>>)

\* _enableScan up to its await: resolve the camera, call camera.start()
EnableScanCall(s, c, caller) ==
  LET cam == IF c # NoCam THEN c ELSE s.cam
  IN  IF cam = NoCam
        THEN Fail(s, <<"throw", "Camera is not defined.">>)
        ELSE Effect([s EXCEPT !.cam = cam, !.camState[cam] = "starting",
                              !.lock = caller],
                    <<"camera.start", cam>>)

\* _enableScan after the await, then the rest of onenteractive and the
\* completion of the transition
EnableScanResume(s) ==
  LET a == ActiveScanStart([s EXCEPT !.camState[s.cam] = "on", !.videoSrc = TRUE])
  IN  [Effect(a, <<"emit", "active">>) EXCEPT !.fsm = "active", !.lock = "none"]

\* An event of the state machine checks the table, then the transition lock.
Refused(s, event) == ~Can(event, s.fsm) \/ s.lock # "none"

Refuse(s, event) ==
  IF ~Can(event, s.fsm)
    THEN Fail(s, <<"reject", "Invalid event in current state">>)
    ELSE Fail(s, <<"reject", "Previous transition pending">>)

\* the cleanup of 'active' runs from every state
FsmStopAlwaysLeaves(s) ==
  IF Refused(s, "stop") THEN Refuse(s, "stop")
  ELSE [OnLeaveActive(s) EXCEPT !.fsm = "stopped"]

FsmStop(s) ==
  IF Refused(s, "stop") THEN Refuse(s, "stop")
  ELSE [(IF s.fsm = "active" THEN OnLeaveActive(s) ELSE s) EXCEPT !.fsm = "stopped"]

FsmDeactivate(s) ==
  IF Refused(s, "deactivate") THEN Refuse(s, "deactivate")
  ELSE [(IF s.fsm = "active" THEN OnLeaveActive(s) ELSE s) EXCEPT !.fsm = "inactive"]

FsmActivate(s, c, vis, caller) ==
  IF Refused(s, "activate") THEN Refuse(s, "activate")
  ELSE LET g == [s EXCEPT !.guarded = TRUE, !.guardVisible = vis]
       IN  IF Condition(vis) = "active"
             THEN EnableScanCall(g, c, caller)
             ELSE [g EXCEPT !.fsm = "inactive"]

\* start: 'stopped' -> 'started', whose onenteredstarted awaits activate(camera)
FsmStart(s, c, vis) ==
  IF Refused(s, "start") THEN Refuse(s, "start")
  ELSE FsmActivate([s EXCEPT !.fsm = "started"], c, vis, "start")

\* no stop before the start
ScannerStartNoStop(s, c, vis) == FsmStart(s, c, vis)

\* Scanner.start(camera)
ScannerStart(s, c, vis) ==
  IF Can("start", s.fsm)
    THEN FsmStart(s, c, vis)
    ELSE LET t == FsmStop(s)
         IN  IF t.failed THEN t ELSE FsmStart(t, c, vis)

\* Scanner.stop()
ScannerStop(s) == IF Can("stop", s.fsm) THEN FsmStop(s) ELSE s

\* backgroundScan is not consulted
OnHiddenAlways(s, bg) ==
  IF Can("deactivate", s.fsm) THEN FsmDeactivate(s) ELSE s

\* the 'hidden' branch of the Visibility.change callback
OnHidden(s, bg) ==
  IF ~bg /\ Can("deactivate", s.fsm) THEN FsmDeactivate(s) ELSE s

\* activate() is called whatever the state
OnVisibleDeferredUnchecked(s, vis) == FsmActivate(s, NoCam, vis, "visible")

\* the setTimeout callback of the 'visible' branch
OnVisibleDeferred(s, vis) ==
  IF Can("activate", s.fsm) THEN FsmActivate(s, NoCam, vis, "visible") ELSE s

Commit(s) ==
  /\ fsm' = s.fsm
  /\ lock' = s.lock
  /\ _camera' = s.cam
  /\ camState' = s.camState
  /\ videoSrc' = s.videoSrc
  /\ videoReady' = s.videoReady
  /\ _active' = s.active
  /\ raf' = s.raf
  /\ out' = s.out

StatusOf(s) ==
  IF s.failed THEN "error" ELSE IF s.lock # "none" THEN "pending" ELSE "ok"

Start(c) ==
  LET s == ScannerStart(Life, c, visible)
  IN  /\ Commit(s)
      /\ op' = "start"
      /\ startCall' = IF lock # "none" THEN startCall
                      ELSE [status |-> StatusOf(s),
                            kind |-> IF fsm = "stopped" THEN "fresh" ELSE "restart",
                            cam |-> c,
                            same |-> c # NoCam /\ startCall.cam = c
                                       /\ startCall.status = "ok",
                            guardVisible |-> s.guardVisible]
      /\ UNCHANGED <<visible, deferred, scanVars, confVars>>

Stop ==
  /\ Commit(ScannerStop(Life))
  /\ op' = "stop"
  /\ UNCHANGED <<visible, deferred, startCall, scanVars, confVars>>

Hidden ==
  /\ visible
  /\ visible' = FALSE
  /\ Commit(OnHidden(Life, backgroundScan))
  /\ op' = "hidden"
  /\ UNCHANGED <<deferred, startCall, scanVars, confVars>>

Visible ==
  /\ ~visible
  /\ deferred < MaxDeferred
  /\ visible' = TRUE
  /\ deferred' = deferred + 1
  /\ op' = "visible"
  /\ out' = <<>>
  /\ UNCHANGED <<lifeVars, startCall, scanVars, confVars>>

DeferredActivate ==
  /\ deferred > 0
  /\ deferred' = deferred - 1
  /\ Commit(OnVisibleDeferred(Life, visible))
  /\ op' = "deferredActivate"
  /\ UNCHANGED <<visible, startCall, scanVars, confVars>>

\* camera.start() resolves with a stream url
CameraResolved ==
  /\ lock # "none"
  /\ raf < MaxRaf
  /\ Commit(EnableScanResume(Life))
  /\ op' = "cameraResolved"
  /\ startCall' = IF lock = "start" THEN [startCall EXCEPT !.status = "ok"] ELSE startCall
  /\ UNCHANGED <<visible, deferred, scanVars, confVars>>

\* camera.start() rejects: the transition fails and the state stays where it was
CameraRejected ==
  /\ lock # "none"
  /\ Commit(Fail([Life EXCEPT !.camState[_camera] = "off", !.lock = "none"],
                 <<"throw", "camera.start">>))
  /\ op' = "cameraRejected"
  /\ startCall' = IF lock = "start" THEN [startCall EXCEPT !.status = "error"] ELSE startCall
  /\ UNCHANGED <<visible, deferred, scanVars, confVars>>

\* ------------------------------------------------------------ the scan loop
Min(a, b) == IF a < b THEN a ELSE b

\* ++this._frameCount !== this.scanPeriod
FrameDue(count, period) == count + 1 = period

\* the counter is never reset
NextFrameCountNoReset(count, period) == count + 1

NextFrameCount(count, period) == IF count + 1 = period THEN 0 ELSE count + 1

\* the allocating call goes on to decode
AnalyzeDecodeOnAllocate(ready, buffer, d) ==
  IF ~ready THEN [result |-> Null, buffer |-> buffer, decoded |-> FALSE]
  ELSE IF d = DecodeErr THEN [result |-> Null, buffer |-> TRUE, decoded |-> TRUE]
  ELSE [result |-> d, buffer |-> TRUE, decoded |-> TRUE]

\* Analyzer.analyze() on a decoder outcome d: the analysis, the buffer
\* afterwards and whether the decode primitive was invoked
Analyze(ready, buffer, d) ==
  IF ~ready THEN [result |-> Null, buffer |-> buffer, decoded |-> FALSE]
  ELSE IF ~buffer THEN [result |-> Null, buffer |-> TRUE, decoded |-> FALSE]
  ELSE IF d = DecodeErr THEN [result |-> Null, buffer |-> TRUE, decoded |-> TRUE]
  ELSE [result |-> d, buffer |-> TRUE, decoded |-> TRUE]

\* !(!analysis || !result || result === this.lastResult)
Accepts(result, last) == result # Null /\ result # "" /\ result # last

ClearTimeout(ts, id) == {t \in ts : t.id # id}

FreeId(ts) ==
  CHOOSE i \in 1..(Cardinality(ts) + 1) :
    /\ \A t \in ts : t.id # i
    /\ \A j \in 1..(i - 1) : \E t \in ts : t.id = j

SetTimeout(ts, id, delay) == ts \cup {[id |-> id, left |-> delay]}

\* the pending timer is not cancelled
RearmRefractoryNoClear(ts, handle, delay) == SetTimeout(ts, FreeId(ts), delay)

\* lines 49-52: the timers after an acceptance
RearmRefractory(ts, handle, delay) ==
  LET cleared == ClearTimeout(ts, handle)
  IN  SetTimeout(cleared, FreeId(cleared), delay)

\* every result gets an image
ScanImageAlways(capture) == "image"

\* line 54: the image of an accepted result
ScanImage(capture) == IF capture THEN "image" ELSE Null

\* lines 57-59: the emission is deferred to a later turn
DeferEmit(queue, result, image) == Append(queue, <<result, image>>)

\* a requestAnimationFrame callback runs _scan()
Frame(d) ==
  /\ raf > 0
  /\ _frameCount < MaxCount
  /\ op' = "frame"
  /\ IF ~_active
       THEN /\ raf' = raf - 1
            /\ out' = <<>>
            /\ UNCHANGED scanVars
       ELSE /\ raf' = raf
            /\ _frameCount' = NextFrameCount(_frameCount, scanPeriod)
            /\ IF ~FrameDue(_frameCount, scanPeriod)
                 THEN /\ out' = <<>>
                      /\ sinceAnalyze' = Min(sinceAnalyze + 1, MaxPeriod)
                      /\ sinceSet' = IF sinceSet = Never THEN Never
                                     ELSE Min(sinceSet + 1, MaxCount)
                      /\ UNCHANGED <<lastResult, refractoryTimeout, timers, emitQueue,
                                     imageBuffer, lastAccept>>
                 ELSE LET a == Analyze(videoReady, imageBuffer, d)
                            calls == IF a.decoded THEN << <<"analyze">>, <<"decode", d>> >>
                                     ELSE << <<"analyze">> >>
                        IN  /\ sinceAnalyze' = 0
                            /\ sinceSet' = Never
                            /\ imageBuffer' = a.buffer
                            /\ IF Accepts(a.result, lastResult)
                                 THEN /\ Len(emitQueue) < MaxEmit
                                      /\ timers' = RearmRefractory(timers, refractoryTimeout,
                                                                   refractoryPeriod)
                                      /\ refractoryTimeout' =
                                           FreeId(ClearTimeout(timers, refractoryTimeout))
                                      /\ lastResult' = a.result
                                      /\ emitQueue' = DeferEmit(emitQueue, a.result,
                                                             ScanImage(captureImage))
                                      /\ lastAccept' = [lastAccept EXCEPT ![a.result] = 0]
                                      /\ out' = Append(calls, <<"accept", a.result>>)
                                 ELSE /\ out' = calls
                                      /\ UNCHANGED <<lastResult, refractoryTimeout, timers,
                                                     emitQueue, lastAccept>>
  /\ UNCHANGED <<fsm, lock, visible, deferred, _camera, camState, videoSrc, videoReady,
                 _active, startCall, confVars>>

\* the video element learns the dimensions of its stream
LoadedMetadata ==
  /\ videoSrc
  /\ ~videoReady
  /\ videoReady' = TRUE
  /\ op' = "loadedMetadata"
  /\ out' = <<>>
  /\ UNCHANGED <<fsm, lock, visible, deferred, _camera, camState, videoSrc, _active, raf,
                 startCall, scanVars, confVars>>

\* the callback of line 50 runs
RefractoryFire ==
  /\ \E t \in timers :
       /\ t.left = 0
       /\ timers' = timers \ {t}
  /\ lastResult' = Null
  /\ op' = "refractoryFire"
  /\ out' = <<>>
  /\ UNCHANGED <<lifeVars, visible, deferred, startCall, confVars, _frameCount,
                 refractoryTimeout, emitQueue, imageBuffer, sinceAnalyze, sinceSet, lastAccept>>

\* the callback of line 57 runs
EmitScan ==
  /\ emitQueue # <<>>
  /\ emitQueue' = Tail(emitQueue)
  /\ op' = "emitScan"
  /\ out' = << <<"emit", "scan", Head(emitQueue)[1], Head(emitQueue)[2]>> >>
  /\ UNCHANGED <<lifeVars, visible, deferred, startCall, confVars, _frameCount, lastResult,
                 refractoryTimeout, timers, imageBuffer, sinceAnalyze, sinceSet, lastAccept>>

\* one unit of time passes
AdvanceTime ==
  /\ timers' = {[t EXCEPT !.left = IF @ > 0 THEN @ - 1 ELSE 0] : t \in timers}
  /\ lastAccept' = [x \in Texts |->
                      IF lastAccept[x] = Never THEN Never
                      ELSE Min(lastAccept[x] + 1, AgeCap)]
  /\ op' = "advanceTime"
  /\ out' = <<>>
  /\ UNCHANGED <<lifeVars, visible, deferred, startCall, confVars, _frameCount, lastResult,
                 refractoryTimeout, emitQueue, imageBuffer, sinceAnalyze, sinceSet>>

\* The scanner's life cycle, with a camera that sees no code.
Next ==
  \/ \E c \in Cameras \cup {NoCam} : Start(c)
  \/ Stop
  \/ Hidden
  \/ Visible
  \/ DeferredActivate
  \/ CameraResolved
  \/ CameraRejected
  \/ Frame(DecodeErr)
  \/ LoadedMetadata

Spec == Init /\ [][Next]_vars

\* The scan loop of a scanner on a visible page, with one working camera.
NextScan ==
  \/ Start("c1")
  \/ Stop
  \/ CameraResolved
  \/ \E d \in DecodeOutcomes : Frame(d)
  \/ LoadedMetadata
  \/ RefractoryFire
  \/ EmitScan
  \/ AdvanceTime

SpecScan == InitScan /\ [][NextScan]_vars

\* set scanPeriod (lines 237-239), with a positive integer
SetScanPeriod(p) ==
  /\ scanPeriod' = p
  /\ sinceSet' = 0
  /\ op' = "setScanPeriod"
  /\ out' = <<>>
  /\ UNCHANGED <<lifeVars, visible, deferred, startCall, backgroundScan, captureImage,
                 refractoryPeriod, _frameCount, lastResult, refractoryTimeout, timers,
                 emitQueue, imageBuffer, sinceAnalyze, lastAccept>>

\* set captureImage (lines 229-231)
SetCaptureImage(b) ==
  /\ captureImage' = b
  /\ op' = "setCaptureImage"
  /\ out' = <<>>
  /\ UNCHANGED <<lifeVars, visible, deferred, startCall, scanVars, backgroundScan,
                 scanPeriod, refractoryPeriod>>

\* A scanner started once on a visible page, its options changed while it runs.
NextTune ==
  \/ Start("c1")
  \/ CameraResolved
  \/ \E d \in DecodeOutcomes : Frame(d)
  \/ LoadedMetadata
  \/ EmitScan
  \/ \E p \in 1..MaxPeriod : SetScanPeriod(p)
  \/ \E b \in BOOLEAN : SetCaptureImage(b)

SpecTune == InitScan /\ [][NextTune]_vars

\* ------------------------------------------------------------------ claims
CameraStarted == \E c \in Cameras : camState[c] = "on"

AtRest == lock = "none"

\* The first half of C1 on its own: the scan loop runs or a camera is started
\* only in 'active'.
ResourcesOnlyWhileActive == (_active \/ CameraStarted) => fsm = "active"

\* C1: in every reachable state the scan loop runs or a camera is started only
\* while the state is 'active', and whenever no transition is in progress and
\* the state is not 'stopped' it is 'active' or 'inactive', never 'started'.
C1_ActiveOrInactiveAtRest ==
  /\ ResourcesOnlyWhileActive
  /\ (AtRest /\ fsm # "stopped") => fsm \in {"active", "inactive"}

\* what the last step did
Did(e) == \E i \in 1..Len(out) : out[i] = e

AnalyzeCalled == op = "frame" /\ Did(<<"analyze">>)

\* C2: with a fixed scanPeriod N, a tick of the running loop calls analyze if
\* and only if the frame counter reaches N on it, the counter is then zero
\* again, and exactly N ticks lie between two calls of analyze.
C2_AnalyzeOncePerPeriod ==
  /\ [](_frameCount < scanPeriod /\ sinceAnalyze < scanPeriod)
  /\ [][(op' = "frame" /\ _active) =>
          /\ AnalyzeCalled' <=> (_frameCount + 1 = scanPeriod)
          /\ AnalyzeCalled' => (_frameCount' = 0 /\ sinceAnalyze = scanPeriod - 1)
          /\ ~AnalyzeCalled' => (_frameCount' = _frameCount + 1 /\ out' = <<>>)]_vars

C2_Witness ==
  /\ AnalyzeCalled
  /\ scanPeriod > 1
  /\ _frameCount = 0
  /\ _active

\* C3: a text is never accepted again before refractoryPeriod has passed since
\* it was last accepted.
C3_NoRepeatWithinRefractory ==
  [][\A x \in Texts :
       (op' = "frame" /\ Did(<<"accept", x>>)') =>
         (lastAccept[x] = Never \/ lastAccept[x] >= refractoryPeriod)]_vars

\* C4: at most one refractory timer is pending, it is the one of the latest
\* acceptance and lastResult is set exactly while it is pending; a decoded
\* text is suppressed while it equals lastResult and accepted otherwise; an
\* acceptance leaves one timer of refractoryPeriod; lastResult is cleared by
\* that timer only, refractoryPeriod or more after the latest acceptance.
C4_RefractoryTimer ==
  /\ [](/\ Cardinality(timers) <= 1
        /\ \A t \in timers : t.id = refractoryTimeout
        /\ (lastResult # Null) <=> (timers # {}))
  /\ [][/\ \A x \in Texts :
             (op' = "frame" /\ Did(<<"decode", x>>)') =>
               /\ Did(<<"accept", x>>)' <=> (x # lastResult)
               /\ (x = lastResult) =>
                    UNCHANGED <<lastResult, timers, emitQueue, refractoryTimeout>>
               /\ (x # lastResult) =>
                    /\ lastResult' = x
                    /\ timers' = {[id |-> refractoryTimeout', left |-> refractoryPeriod]}
                    /\ emitQueue' # emitQueue
        /\ (lastResult # Null /\ lastResult' = Null) =>
             /\ op' = "refractoryFire"
             /\ lastAccept[lastResult] >= refractoryPeriod]_vars

\* the same text accepted twice in a row, with no other text ever accepted
C4_Witness ==
  /\ Len(emitQueue) = 2
  /\ emitQueue[1][1] = "A"
  /\ emitQueue[2][1] = "A"
  /\ lastAccept["B"] = Never
  /\ lastResult = "A"
  /\ Cardinality(timers) = 1

\* C5: without backgroundScan, 'hidden' in 'active' ends in 'inactive' with
\* camera.stop() called once; the activation deferred by the next 'visible'
\* calls camera.start() once, on the camera kept from the earlier start, and
\* its resolution ends in 'active'.
C5_HiddenThenVisible ==
  /\ []((startCall.status = "ok" /\ startCall.guardVisible /\ startCall.cam # NoCam)
          => _camera = startCall.cam)
  /\ [][/\ (op' = "hidden" /\ fsm = "active" /\ ~backgroundScan) =>
             /\ fsm' = "inactive"
             /\ out' = << <<"camera.stop", _camera>>, <<"emit", "inactive">> >>
             /\ camState'[_camera] = "off"
             /\ ~_active'
             /\ _camera' = _camera
        /\ op' = "visible" => (out' = <<>> /\ UNCHANGED lifeVars)
        /\ (op' = "deferredActivate" /\ fsm = "inactive" /\ AtRest /\ visible
              /\ _camera # NoCam) =>
             /\ out' = << <<"camera.start", _camera>> >>
             /\ lock' = "visible"
             /\ _camera' = _camera
        /\ (op' = "cameraResolved" /\ lock = "visible") =>
             /\ fsm' = "active"
             /\ out' = << <<"emit", "active">> >>
             /\ camState'[_camera] = "on"
             /\ _camera' = _camera]_vars

\* a start that ended 'active', a 'hidden' that deactivated, and the deferred
\* activation of a 'visible' that has called camera.start() on that camera
C5_Witness ==
  /\ op = "deferredActivate"
  /\ ~backgroundScan
  /\ lock = "visible"
  /\ startCall.status = "ok"
  /\ startCall.guardVisible
  /\ startCall.cam = _camera
  /\ camState[_camera] = "starting"

\* C6: with backgroundScan, 'hidden' in 'active' changes nothing: the state
\* stays 'active', nothing is called or emitted, the loop keeps running.
C6_BackgroundScanKeepsActive ==
  [][(op' = "hidden" /\ backgroundScan /\ fsm = "active") =>
       /\ fsm' = "active"
       /\ out' = <<>>
       /\ UNCHANGED lifeVars]_vars

C6_Witness ==
  /\ op = "hidden"
  /\ backgroundScan
  /\ ~visible
  /\ fsm = "active"
  /\ _active
  /\ camState[_camera] = "on"

\* the step in which a start() call settles without error
StartCompletes ==
  /\ startCall'.status = "ok"
  /\ \/ op' = "start" /\ AtRest
     \/ op' = "cameraResolved" /\ lock = "start"

\* C7: a start(camera) from 'stopped' that completes ends 'active' if the page
\* was visible or backgroundScan is set when the guard ran, else 'inactive'
\* with no camera started and the scan loop not running.
C7_StartOutcome ==
  [][(StartCompletes /\ startCall'.kind = "fresh") =>
       /\ fsm' = IF startCall'.guardVisible \/ backgroundScan
                   THEN "active" ELSE "inactive"
       /\ fsm' = "inactive" =>
            (~_active' /\ \A c \in Cameras : camState'[c] = "off")]_vars

\* C8: after a completed start(camera), the activation deferred by a 'visible'
\* signal starts that camera and throws no 'Camera is not defined.'
C8_StoredCamera ==
  [][(op' = "deferredActivate" /\ fsm = "inactive" /\ AtRest /\ visible
        /\ startCall.status = "ok" /\ startCall.cam # NoCam) =>
       /\ ~Did(<<"throw", "Camera is not defined.">>)'
       /\ Did(<<"camera.start", startCall.cam>>)']_vars

\* a freshly constructed scanner
FreshLife ==
  [fsm |-> "stopped", lock |-> "none", cam |-> NoCam,
   camState |-> [c \in Cameras |-> "off"], videoSrc |-> FALSE, videoReady |-> FALSE,
   active |-> FALSE, raf |-> 0, out |-> <<>>, failed |-> FALSE, guarded |-> FALSE,
   guardVisible |-> FALSE]

Observable(s) == <<s.fsm, s.lock, s.camState, s.active, s.failed>>

Settled(s) == IF s.lock = "none" THEN s ELSE EnableScanResume(s)

C10_StopIdempotent ==
  [][op' = "stop" =>
       /\ fsm' = "stopped"
       /\ ~_active'
       /\ \A c \in Cameras : camState'[c] = "off"
       /\ fsm = "stopped" => (out' = <<>> /\ UNCHANGED lifeVars)]_vars

ThrowsCameraUndefined == Did(<<"throw", "Camera is not defined.">>)

\* C11: an activation that finds no camera, neither passed nor stored, throws
\* 'Camera is not defined.': camera.start() is not called, the scan loop is
\* not started, no 'active' is emitted, the state does not become 'active',
\* and the start() call that ran the activation is rejected.
C11_CameraUndefined ==
  [][/\ (op' = "start" /\ AtRest /\ visible /\ _camera = NoCam
           /\ startCall'.cam = NoCam) => ThrowsCameraUndefined'
     /\ (op' = "deferredActivate" /\ AtRest /\ visible /\ _camera = NoCam
           /\ fsm \in {"started", "inactive"}) => ThrowsCameraUndefined'
     /\ ThrowsCameraUndefined' =>
          /\ op' \in {"start", "deferredActivate"}
          /\ \A c \in Cameras : ~Did(<<"camera.start", c>>)' /\ camState'[c] = "off"
          /\ ~Did(<<"emit", "active">>)'
          /\ ~_active'
          /\ raf' = raf
          /\ fsm' # "active"
          /\ lock' = "none"
          /\ op' = "start" => startCall'.status = "error"]_vars

\* start() with no camera on a visible page, rejected
C11_Witness ==
  /\ op = "start"
  /\ ThrowsCameraUndefined
  /\ startCall.status = "error"
  /\ startCall.cam = NoCam
  /\ _camera = NoCam

EmitsScan == \E i \in 1..Len(out) : out[i][1] = "emit" /\ out[i][2] = "scan"

\* C12: an acceptance defers exactly one emission, carrying the accepted text
\* and an image exactly if captureImage is set on that tick; a frame tick
\* emits no 'scan' itself; pending emissions are delivered one per turn in
\* the order of acceptance and nothing else adds, drops or reorders them.
C12_DeferredScanEvents ==
  [][/\ op' = "frame" =>
          /\ ~EmitsScan'
          /\ \A x \in Texts :
               Did(<<"accept", x>>)' =>
                 /\ Len(emitQueue') = Len(emitQueue) + 1
                 /\ \A i \in 1..Len(emitQueue) : emitQueue'[i] = emitQueue[i]
                 /\ emitQueue'[Len(emitQueue')][1] = x
                 /\ (emitQueue'[Len(emitQueue')][2] # Null) <=> captureImage
          /\ (\A x \in Texts : ~Did(<<"accept", x>>)') => emitQueue' = emitQueue
     /\ op' = "emitScan" =>
          /\ emitQueue # <<>>
          /\ out' = << <<"emit", "scan", emitQueue[1][1], emitQueue[1][2]>> >>
          /\ emitQueue' = Tail(emitQueue)
     /\ op' \notin {"frame", "emitScan"} => (emitQueue' = emitQueue /\ ~EmitsScan')]_vars

\* an image delivered after captureImage was switched off again
C12_Witness ==
  /\ op = "emitScan"
  /\ out = << <<"emit", "scan", "A", "image">> >>
  /\ ~captureImage
  /\ Len(emitQueue) = 1
  /\ emitQueue[1] = <<"B", Null>>

DecodeCalled == \E d \in DecodeOutcomes : Did(<<"decode", d>>)

AcceptedAny == \E x \in Texts : Did(<<"accept", x>>)

\* C13: a call of analyze on a video without dimensions returns nothing and
\* leaves the buffer unallocated; the call that finds dimensions but no buffer
\* allocates it and returns nothing without decoding; the decode primitive
\* runs only in calls that find the buffer allocated; only analyze allocates
\* the buffer and nothing frees it.
C13_AnalyzeStages ==
  [][/\ AnalyzeCalled' =>
          /\ ~videoReady => (imageBuffer' = imageBuffer /\ ~DecodeCalled' /\ ~AcceptedAny')
          /\ (videoReady /\ ~imageBuffer) =>
               (imageBuffer' /\ ~DecodeCalled' /\ ~AcceptedAny')
          /\ DecodeCalled' <=> (videoReady /\ imageBuffer)
     /\ ~AnalyzeCalled' => (imageBuffer' = imageBuffer /\ ~DecodeCalled')
     /\ imageBuffer => imageBuffer']_vars

\* the allocating call
C13_Witness ==
  /\ AnalyzeCalled
  /\ videoReady
  /\ imageBuffer
  /\ ~DecodeCalled
  /\ out = << <<"analyze">> >>

\* C14: a tick scheduled before the loop was stopped does nothing when it
\* fires, whatever starts and stops follow, so at most one tick callback is
\* pending at a time and a tick that reschedules itself is the only one.
C14_SingleLoop ==
  /\ [](raf <= 1)
  /\ [][(op' = "frame" /\ raf' = raf) => raf = 1]_vars

\* C15: once scanPeriod has been set to P, analyze is called within P further
\* ticks of the running loop, whatever the frame counter was.
C15_PeriodChangeTakesEffect == sinceSet < scanPeriod

\* C16: the refractory timer firing while the loop is stopped has no
\* observable effect: the run in which it fired before the next start and the
\* run in which it had not yet fired accept, and so emit, the same texts; the
\* two runs differ in the state the firing leaves, so the firing must leave
\* the loop accepting exactly the texts it accepted before.
C16_FiringWhileStoppedUnobservable ==
  [][(op' = "refractoryFire" /\ ~_active) =>
       \A d \in Texts : Accepts(d, lastResult') <=> Accepts(d, lastResult)]_vars

\* C17: a visible signal changes nothing on its own turn and schedules one
\* deferred callback; that callback does nothing at all, no transition, no
\* camera.start(), no error, unless the state then allows 'activate', so in
\* particular not in 'stopped' or 'active'; when the state allows it and no
\* transition is pending it activates with the stored camera. A hidden signal
\* leaves 'active' or 'started' for 'inactive' on its own turn if
\* backgroundScan is off and the state allows 'deactivate', and does nothing
\* at all if the state does not allow it.
C17_VisibilitySignals ==
  [][/\ op' = "visible" =>
          (lifeVars' = lifeVars /\ out' = <<>> /\ deferred' = deferred + 1)
     /\ op' = "deferredActivate" =>
          /\ ~Can("activate", fsm) => (lifeVars' = lifeVars /\ out' = <<>>)
          /\ fsm \in {"stopped", "active"} => (lifeVars' = lifeVars /\ out' = <<>>)
          /\ (Can("activate", fsm) /\ lock = "none" /\ visible /\ _camera # NoCam) =>
               Did(<<"camera.start", _camera>>)'
     /\ (\E c \in Cameras : Did(<<"camera.start", c>>)') =>
          op' \in {"start", "deferredActivate"}
     /\ op' = "hidden" =>
          /\ ~Can("deactivate", fsm) => (lifeVars' = lifeVars /\ out' = <<>>)
          /\ (~backgroundScan /\ Can("deactivate", fsm) /\ lock = "none") =>
               (fsm' = "inactive" /\ ~_active' /\ \A c \in Cameras : camState'[c] = "off")
          /\ fsm' # fsm => (~backgroundScan /\ Can("deactivate", fsm))]_vars

\* a start() ran between the visible signal and its deferred callback
C17_Witness ==
  /\ op = "deferredActivate"
  /\ fsm = "active"
  /\ out = <<>>
  /\ visible
  /\ startCall.status = "ok"

Count(e) == Cardinality({i \in 1..Len(out) : out[i] = e})

\* C18: 'active' is emitted only by the step in which a called camera.start()
\* resolves, after the stream is bound and the loop started, and exactly once
\* by every step that enters 'active'; every step that leaves 'active' emits
\* 'inactive' exactly once, with the video source cleared and the loop
\* stopped, and after the camera was stopped.
C18_ActiveInactiveEvents ==
  [][/\ Did(<<"emit", "active">>)' =>
          /\ op' = "cameraResolved"
          /\ fsm # "active" /\ fsm' = "active"
          /\ camState[_camera] = "starting" /\ camState'[_camera] = "on"
          /\ videoSrc' /\ _active' /\ raf' = raf + 1
     /\ (fsm # "active" /\ fsm' = "active") => Count(<<"emit", "active">>)' = 1
     /\ fsm' = fsm => ~Did(<<"emit", "active">>)'
     /\ (fsm = "active" /\ fsm' # "active") =>
          /\ Count(<<"emit", "inactive">>)' = 1
          /\ ~videoSrc' /\ ~_active'
          /\ \E i, j \in 1..Len(out') :
               /\ i < j
               /\ out'[i] = <<"camera.stop", _camera>>
               /\ out'[j] = <<"emit", "inactive">>
          /\ \A i, j \in 1..Len(out') :
               (out'[i] = <<"emit", "inactive">> /\ out'[j][1] = "camera.stop") => j < i]_vars

\* a restart that left 'active'
C18_Witness ==
  /\ op = "start"
  /\ out = << <<"camera.stop", "c1">>, <<"emit", "inactive">>, <<"camera.start", "c2">> >>
  /\ fsm = "started"
  /\ ~_active

\* C19: a 'scan' event is delivered only while the scanner is active.
C19_NoScanWhileNotActive ==
  [][EmitsScan' => (fsm = "active" /\ fsm' = "active")]_vars

\* C20: camera.stop() is called only on the stored camera while a start() of
\* it has resolved and has not been followed by a stop(), and camera.start()
\* only on a camera that is not started or starting, a handler that calls
\* both calling stop() first: per camera the calls alternate, start first.
C20_CameraCallsAlternate ==
  [][\A c \in Cameras :
       /\ Did(<<"camera.stop", c>>)' =>
            /\ camState[c] = "on"
            /\ _camera = c
            /\ Count(<<"camera.stop", c>>)' = 1
       /\ Did(<<"camera.start", c>>)' =>
            /\ Count(<<"camera.start", c>>)' = 1
            /\ camState[c] = "off" \/ Did(<<"camera.stop", c>>)'
            /\ camState'[c] = "starting"
       /\ \A i, j \in 1..Len(out') :
            (out'[i] = <<"camera.start", c>> /\ out'[j] = <<"camera.stop", c>>) => j < i
       /\ (camState[c] = "on" /\ camState'[c] # "on") => Did(<<"camera.stop", c>>)'
       /\ (camState[c] # "on" /\ camState'[c] = "on") =>
            (camState[c] = "starting" /\ op' = "cameraResolved")]_vars

\* a restart on the camera that is running
C20_Witness ==
  /\ op = "start"
  /\ out = << <<"camera.stop", "c1">>, <<"emit", "inactive">>, <<"camera.start", "c1">> >>
  /\ camState["c1"] = "starting"
  /\ _camera = "c1"

====
